---- MODULE Spec2Model ----
(***************************************************************************)
(* A model of the retrieval-augmented drafting pipeline:                   *)
(*   - build_rag_index.chunk_text            (specification SpecChunk)     *)
(*   - docuwrite.retrieve_context            (specification SpecRetrieve)  *)
(*   - docuwrite.main, the request loop      (specification Spec)          *)
(* Each specification drives its own group of variables and pins the       *)
(* other groups to their idle value.                                       *)
(***************************************************************************)
EXTENDS Integers, Sequences, FiniteSets, TLC

VARIABLES
    \* ---- build_rag_index.chunk_text ----
    text,        \* the argument text, a sequence of characters
    max_chars,   \* the argument max_chars
    lines,       \* text.splitlines()
    li,          \* position of the for loop in lines (1-based, next line to take)
    cur,         \* the lines of the chunk being accumulated
    total,       \* the running sum of len(line) over cur
    chunks,      \* the chunks emitted so far, each the joined text
    closes,      \* history: one record per loop iteration (what was in cur, the line, whether cur was closed)
    cpc,         \* "idle" | "loop" | "done"
    \* ---- docuwrite.RAG_INDEX and retrieve_context ----
    RAG_INDEX,   \* the loaded index: a sequence of entries [doc_type, embedding, text]
    r_doc_type,  \* the argument doc_type
    r_k,         \* the argument k
    q_emb,       \* what embed_query returned for the query
    ri,          \* position of the for loop in RAG_INDEX
    scored,      \* the list of (sim, text) pairs
    top,         \* scored[:k] after the sort
    r_ret,       \* the returned text: the top texts with separators between them
    rpc,         \* "idle" | "call" | "score" | "done" | "raised"
    \* ---- docuwrite.main ----
    llm,           \* "adapter", or "none" when build_llm raised (line 306)
    pc,            \* "idle" | "prompt" | "retrieve" | "complete" | "quality" | "render" | "fallback" | "ended"
    n_req,         \* requests accepted so far
    user_input,    \* the stripped line read at line 322
    mode,          \* "mfr" | "opord"
    used_fallback, \* the local used_fallback
    rag_context,   \* what retrieve_context returned for this request
    msgs,          \* the roles of the messages of this request's completion call
    resp,          \* history: the reply of this request's completion call
    data,          \* the object llm_to_*_json returned
    result,        \* "none" | "ok" | "not_ok": the renderer's result["ok"]
    fb_prompt,     \* the prompt MFRPromptTool.run was given, or "none"
    events,        \* history: what this request has done, in order
    req_input,     \* history: the text of the request accepted last
    req_state,     \* history: "none" | "active" | "ended" | "interrupted"
    \* ---- build_rag_index.main ----
    files,         \* the reference sources on disk: absent, unreadable, or their text
    corpus,        \* the list corpus
    index_file,    \* rag_index/index.json: not written, or the entries written
    bpc,           \* "idle" | "mfr" | "opord" | "save" | "done" | "raised"
    \* ---- MFRPromptTool.run ----
    p_prompt,      \* the argument prompt, a sequence of characters
    p_io,          \* whether the directory and the PDF can be written
    p_result,      \* what run returned, or that it raised
    ppc,           \* "idle" | "call" | "done"
    \* ---- docuwrite.cosine_similarity ----
    cos_a, cos_b,  \* the arguments a and b
    cos_res,       \* what cosine_similarity returned
    cospc          \* "idle" | "call" | "done"

chunkVars == <<text, max_chars, lines, li, cur, total, chunks, closes, cpc>>
retrVars == <<r_doc_type, r_k, q_emb, ri, scored, top, r_ret, rpc>>

ctlVars == <<llm, pc, n_req, user_input, mode, used_fallback, rag_context, msgs,
             resp, data, result, fb_prompt, events, req_input, req_state>>

buildVars == <<files, corpus, index_file, bpc>>
promptVars == <<p_prompt, p_io, p_result, ppc>>
cosVars == <<cos_a, cos_b, cos_res, cospc>>

vars == <<chunkVars, RAG_INDEX, retrVars, ctlVars, buildVars, promptVars, cosVars>>

\* what chunk_text, retrieve_context, docuwrite.main, build_rag_index.main,
\* MFRPromptTool.run and cosine_similarity leave alone
nonChunkVars == <<RAG_INDEX, retrVars, ctlVars, buildVars, promptVars, cosVars>>
nonRetrVars == <<RAG_INDEX, chunkVars, ctlVars, buildVars, promptVars, cosVars>>
nonCtlVars == <<RAG_INDEX, chunkVars, retrVars, buildVars, promptVars, cosVars>>
nonBuildVars == <<RAG_INDEX, chunkVars, retrVars, ctlVars, promptVars, cosVars>>
nonPromptVars == <<RAG_INDEX, chunkVars, retrVars, ctlVars, buildVars, cosVars>>
nonCosVars == <<RAG_INDEX, chunkVars, retrVars, ctlVars, buildVars, promptVars>>

(***************************************************************************)
(* Bounds of the model                                                     *)
(***************************************************************************)
MaxTextLen == 6
MaxChars == 3
MaxIndex == 3      \* entries in the index
MaxK == 2          \* the argument k of retrieve_context ranges over 0..MaxK
MaxCtlIndex == 1   \* entries in the index of a session of main
MaxRequests == 2   \* requests accepted in a session of main
BuildMaxChars == 2 \* the max_chars the index build chunks with (800 in the code)
MaxPromptLen == 3  \* characters in a prompt given to MFRPromptTool.run
MantissaBits == 5  \* bits in the mantissa of a float (53 in the code's floats)
MaxComp == 3       \* the components of the vectors cosine_similarity is called on are in -MaxComp..MaxComp

(***************************************************************************)
(* build_rag_index.py : chunk_text                                         *)
(***************************************************************************)
NL == "NL"                        \* the newline character
Alphabet == {"a", "b", NL}
Texts == UNION {[1..n -> Alphabet] : n \in 0..MaxTextLen}

RECURSIVE SplitNL(_)
\* s.split("\n"): the pieces between newline characters (always at least one piece)
SplitNL(s) ==
    IF \A p \in 1..Len(s) : s[p] # NL
    THEN <<s>>
    ELSE LET p == CHOOSE q \in 1..Len(s) : s[q] = NL /\ \A r \in 1..(q-1) : s[r] # NL
         IN  <<SubSeq(s, 1, p-1)>> \o SplitNL(SubSeq(s, p+1, Len(s)))

\* str.splitlines(): as split on the newline, without the empty piece that
\* follows a final newline (and no line at all for the empty text)
splitlines(s) ==
    LET p == SplitNL(s)
    IN  IF p[Len(p)] = <<>> THEN SubSeq(p, 1, Len(p)-1) ELSE p

RECURSIVE JoinNL(_)
\* "\n".join(ls)
JoinNL(ls) ==
    IF ls = <<>> THEN <<>>
    ELSE IF Len(ls) = 1 THEN ls[1]
    ELSE ls[1] \o <<NL>> \o JoinNL(Tail(ls))

\* Python truthiness of a list
Truthy(l) == l # <<>>

\* ShouldClose with a fault: tests the bound before the line is counted
ShouldClose_NoLine(tot, line, mx, c) == tot > mx /\ Truthy(c)

\* line 25: total + len(line) > max_chars and cur
ShouldClose(tot, line, mx, c) == tot + Len(line) > mx /\ Truthy(c)

\* AfterClose with a fault: the line that triggers the close is not kept
AfterClose_DropLine(c, tot, line, mx) ==
    IF ShouldClose(tot, line, mx, c)
    THEN [cur |-> <<>>, total |-> 0]
    ELSE [cur |-> Append(c, line), total |-> tot + Len(line)]

\* AfterClose with a fault: the running total is not reset when a chunk is closed
AfterClose_KeepTotal(c, tot, line, mx) ==
    IF ShouldClose(tot, line, mx, c)
    THEN [cur |-> <<line>>, total |-> tot + Len(line)]
    ELSE [cur |-> Append(c, line), total |-> tot + Len(line)]

\* lines 25-29: cur and total after one iteration of the loop
AfterClose(c, tot, line, mx) ==
    IF ShouldClose(tot, line, mx, c)
    THEN [cur |-> <<line>>, total |-> Len(line)]
    ELSE [cur |-> Append(c, line), total |-> tot + Len(line)]

\* lines 26 and 31: chunks.append("\n".join(cur))
Emit(cs, c) == Append(cs, JoinNL(c))

ChunkIdle ==
    /\ text = <<>> /\ max_chars = 0 /\ lines = <<>> /\ li = 1
    /\ cur = <<>> /\ total = 0 /\ chunks = <<>> /\ closes = <<>> /\ cpc = "idle"

\* lines 20-23: the call chunk_text(text, max_chars)
ChunkInit ==
    /\ text \in Texts
    /\ max_chars \in 0..MaxChars
    /\ lines = splitlines(text)
    /\ li = 1
    /\ cur = <<>> /\ total = 0 /\ chunks = <<>> /\ closes = <<>>
    /\ cpc = "loop"

\* lines 24-29: one iteration of "for line in lines"
ChunkLine ==
    /\ cpc = "loop"
    /\ li <= Len(lines)
    /\ LET line == lines[li]
           nxt  == AfterClose(cur, total, line, max_chars)
       IN  /\ chunks' = IF ShouldClose(total, line, max_chars, cur)
                        THEN Emit(chunks, cur) ELSE chunks
           /\ cur' = nxt.cur
           /\ total' = nxt.total
           /\ closes' = Append(closes, [before |-> cur, line |-> line,
                                        closed |-> Len(chunks') = Len(chunks) + 1])
    /\ li' = li + 1
    /\ UNCHANGED <<text, max_chars, lines, cpc>>
    /\ UNCHANGED nonChunkVars

\* lines 30-32: the final accumulator is emitted when it is not the empty list
ChunkFinish ==
    /\ cpc = "loop"
    /\ li > Len(lines)
    /\ chunks' = IF Truthy(cur) THEN Emit(chunks, cur) ELSE chunks
    /\ cpc' = "done"
    /\ UNCHANGED <<text, max_chars, lines, li, cur, total, closes>>
    /\ UNCHANGED nonChunkVars

ChunkNext == ChunkLine \/ ChunkFinish

RECURSIVE ChunkLoop(_, _, _, _, _)
\* lines 24-31: the loop and the final accumulator, on the lines still to take
ChunkLoop(ls, c, tot, cs, mx) ==
    IF ls = <<>> THEN (IF Truthy(c) THEN Emit(cs, c) ELSE cs)
    ELSE ChunkLoop(Tail(ls), AfterClose(c, tot, ls[1], mx).cur,
                   AfterClose(c, tot, ls[1], mx).total,
                   IF ShouldClose(tot, ls[1], mx, c) THEN Emit(cs, c) ELSE cs, mx)

\* lines 20-32: chunk_text as a function of its arguments
chunk_text(t, mx) == ChunkLoop(splitlines(t), <<>>, 0, <<>>, mx)

(***************************************************************************)
(* build_rag_index.py : extract_pdf_text, embed_texts, main                *)
(***************************************************************************)
\* The four reference sources main looks for (lines 61, 67, 89, 96).
MfrTxt == "mfr_examples.txt"
MfrPdf == "MFR - Bed Rest SOP_CW.pdf"
OpordTxt == "opord_examples.txt"
OpordPdf == "NCLS '24 OPORD (21-23 Feb 2024).pdf"
Sources == {MfrTxt, MfrPdf, OpordTxt, OpordPdf}

\* A source is absent, or present with its text, or present but unreadable
\* (open, read or PdfReader raises on it).
Absent == [st |-> "absent", text |-> <<>>]
Unreadable == [st |-> "unreadable", text |-> <<>>]
Readable(t) == [st |-> "ok", text |-> t]
SourceTexts == {<<>>, <<NL>>, <<"a">>, <<"a", NL, "b", "b">>}
SourceStates == {Absent, Unreadable} \cup {Readable(t) : t \in SourceTexts}

\* lines 61-63 and 89-91: a plain-text source that exists is read, "\n\n" added
ReadTxt(f) == IF f.st = "absent" THEN <<>> ELSE f.text \o <<NL, NL>>

\* lines 43-53 and 67-69, 96-98: a PDF that exists gives the text of its pages
\* (nothing when pypdf is not installed: a present source with no text)
extract_pdf_text(f) == IF f.st = "absent" THEN <<>> ELSE f.text

\* str.strip() of the text is the empty string
Blank(t) == \A p \in 1..Len(t) : t[p] = NL

\* lines 73-79 and 102-108: one corpus entry per chunk, no embedding yet
CorpusEntries(doc_type, source, t) ==
    IF Blank(t) THEN <<>>
    ELSE [i \in 1..Len(chunk_text(t, BuildMaxChars)) |->
             [doc_type |-> doc_type, source |-> source,
              text |-> chunk_text(t, BuildMaxChars)[i], embedding |-> <<>>]]

\* lines 59-81 and 84-110: the references of one doc_type are read and chunked;
\* an exception in open, read or PdfReader is not caught
Collect(txt, pdf, doc_type, source) ==
    IF txt.st = "unreadable" \/ pdf.st = "unreadable"
    THEN [raised |-> TRUE, entries |-> <<>>]
    ELSE [raised |-> FALSE,
          entries |-> CorpusEntries(doc_type, source, ReadTxt(txt) \o extract_pdf_text(pdf))]

\* lines 118-122: every entry gets the embedding returned for its text
WithEmbeddings(cp) == [i \in 1..Len(cp) |-> [cp[i] EXCEPT !.embedding = <<1, 0>>]]

NotWritten == [written |-> FALSE, entries |-> <<>>]
Written(cp) == [written |-> TRUE, entries |-> cp]

BuildIdle ==
    /\ files = [f \in Sources |-> Absent]
    /\ corpus = <<>> /\ index_file = NotWritten /\ bpc = "idle"

\* line 57: corpus = []
BuildInit ==
    /\ files \in [Sources -> SourceStates]
    /\ corpus = <<>> /\ index_file = NotWritten /\ bpc = "mfr"

\* lines 59-81: the MFR references
BuildMfr ==
    /\ bpc = "mfr"
    /\ LET r == Collect(files[MfrTxt], files[MfrPdf], "mfr", "mfr_examples")
       IN  IF r.raised THEN bpc' = "raised" /\ UNCHANGED corpus
           ELSE corpus' = corpus \o r.entries /\ bpc' = "opord"
    /\ UNCHANGED <<files, index_file>>
    /\ UNCHANGED nonBuildVars

\* lines 83-110: the OPORD references
BuildOpord ==
    /\ bpc = "opord"
    /\ LET r == Collect(files[OpordTxt], files[OpordPdf], "opord", "opord_examples")
       IN  IF r.raised THEN bpc' = "raised" /\ UNCHANGED corpus
           ELSE corpus' = corpus \o r.entries /\ bpc' = "save"
    /\ UNCHANGED <<files, index_file>>
    /\ UNCHANGED nonBuildVars

\* lines 113-115: nothing collected, main returns without an index file
BuildNoCorpus ==
    /\ bpc = "save"
    /\ corpus = <<>>
    /\ bpc' = "done"
    /\ UNCHANGED <<files, corpus, index_file>>
    /\ UNCHANGED nonBuildVars

\* lines 117-128: the texts are embedded in one call and the index is written
BuildSave ==
    /\ bpc = "save"
    /\ corpus # <<>>
    /\ corpus' = WithEmbeddings(corpus)
    /\ index_file' = Written(corpus')
    /\ bpc' = "done"
    /\ UNCHANGED files
    /\ UNCHANGED nonBuildVars

\* lines 118, 35-40: the embedding service raises, and so does main
BuildEmbedRaise ==
    /\ bpc = "save"
    /\ corpus # <<>>
    /\ bpc' = "raised"
    /\ UNCHANGED <<files, corpus, index_file>>
    /\ UNCHANGED nonBuildVars

BuildNext == BuildMfr \/ BuildOpord \/ BuildNoCorpus \/ BuildSave \/ BuildEmbedRaise

(***************************************************************************)
(* docuwrite.py : cosine_similarity, embed_query, retrieve_context         *)
(***************************************************************************)
\* Embedding vectors have integer components here. An index entry whose
\* "embedding" is missing or [] has embedding <<>>.
Vec(x, y) == <<x, y>>
EntryEmbeddings == {Vec(1, 0), Vec(1, 1), Vec(0, 1), Vec(-1, 0), <<>>}
QueryEmbeddings == {Vec(1, 1), Vec(1, 2), Vec(0, 0)}
DocTypes == {"mfr", "opord"}

\* The entries an index file can hold; an entry's text names its place in the file.
EntriesAt(i) ==
    {[doc_type |-> "mfr", embedding |-> e, text |-> i] : e \in EntryEmbeddings}
        \cup {[doc_type |-> "opord", embedding |-> Vec(1, 0), text |-> i]}
Indexes ==
    UNION {{ix \in [1..n -> UNION {EntriesAt(i) : i \in 1..n}] :
                \A i \in 1..n : ix[i].text = i} : n \in 0..MaxIndex}

Min(a, b) == IF a < b THEN a ELSE b
Max(a, b) == IF a > b THEN a ELSE b

RECURSIVE DotZip(_, _)
\* sum(x * y for x, y in zip(a, b))
DotZip(a, b) ==
    IF a = <<>> \/ b = <<>> THEN 0 ELSE a[1] * b[1] + DotZip(Tail(a), Tail(b))

\* sum(x * x for x in a): the square of the norm
NormSq(a) == DotZip(a, a)

Sgn(x) == IF x > 0 THEN 1 ELSE IF x < 0 THEN -1 ELSE 0

RECURSIVE Pow2(_)
Pow2(k) == IF k <= 0 THEN 1 ELSE 2 * Pow2(k - 1)

\* A float is kept as the fraction num / den it stands for, den a power of two:
\* 0.0 is 0 / 1, and a non-zero float is m * 2^e with a mantissa m of
\* MantissaBits bits (2^(MantissaBits-1) <= m < 2^MantissaBits). The exponent
\* has no bound here: nothing overflows or underflows.
Zero == [num |-> 0, den |-> 1]
One == [num |-> 1, den |-> 1]
Float(m, e) ==
    IF m = Pow2(MantissaBits)
    THEN [num |-> Pow2(MantissaBits - 1) * Pow2(e + 1), den |-> Pow2(-(e + 1))]
    ELSE [num |-> m * Pow2(e), den |-> Pow2(-e)]
Exponents == (-(2 * MantissaBits))..MantissaBits
SqrtExponents == (-MantissaBits)..MantissaBits

\* the float nearest to n / d (n > 0, d > 0), ties to the even mantissa: what
\* a float operation returns for an exact result of n / d
FloatRound(n, d) ==
    LET e == CHOOSE x \in Exponents :
                 /\ Pow2(MantissaBits - 1) * d * Pow2(x) <= n * Pow2(-x)
                 /\ n * Pow2(-x) < Pow2(MantissaBits) * d * Pow2(x)
        N == n * Pow2(-e)
        D == d * Pow2(e)
        q == N \div D
        r == N % D
    IN  Float(IF 2 * r > D \/ (2 * r = D /\ q % 2 = 1) THEN q + 1 ELSE q, e)

\* math.sqrt(s) for an integer s >= 0 that a float holds exactly: the float
\* nearest to the square root (a square root is never half way between two floats)
FloatSqrt(s) ==
    IF s = 0 THEN Zero
    ELSE LET e == CHOOSE x \in SqrtExponents :
                      /\ Pow2(2 * MantissaBits - 2) * Pow2(2 * x) <= s * Pow2(-(2 * x))
                      /\ s * Pow2(-(2 * x)) < Pow2(2 * MantissaBits) * Pow2(2 * x)
             S == (s * Pow2(-(2 * e))) \div Pow2(2 * e)
             r == CHOOSE x \in Pow2(MantissaBits - 1)..Pow2(MantissaBits) :
                      x * x <= S /\ S < (x + 1) * (x + 1)
         IN  Float(IF s * Pow2(-(2 * e)) > (r * r + r) * Pow2(2 * e) THEN r + 1 ELSE r, e)

\* na * nb of line 78, a float product
NormProduct(a, b) ==
    LET na == FloatSqrt(NormSq(a))
        nb == FloatSqrt(NormSq(b))
    IN  FloatRound(na.num * nb.num, na.den * nb.den)

\* cosine_similarity with a fault: the norm of b is left out of the divisor
cosine_similarity_NoNb(a, b) ==
    LET dot == DotZip(a, b)
        na  == FloatSqrt(NormSq(a))
        nb  == FloatSqrt(NormSq(b))
        q   == FloatRound(Sgn(dot) * dot * na.den, na.num)
    IN  IF na = Zero \/ nb = Zero THEN Zero
        ELSE IF dot = 0 THEN Zero
        ELSE [num |-> Sgn(dot) * q.num, den |-> q.den]

\* lines 71-78. The sums of lines 73-75 are integers a float holds exactly; the
\* two square roots, their product and the quotient are each rounded to a float.
\* 0 / x is 0.0.
cosine_similarity(a, b) ==
    LET dot  == DotZip(a, b)
        na   == FloatSqrt(NormSq(a))
        nb   == FloatSqrt(NormSq(b))
        prod == NormProduct(a, b)
        q    == FloatRound(Sgn(dot) * dot * prod.den, prod.num)
    IN  IF na = Zero \/ nb = Zero THEN Zero
        ELSE IF dot = 0 THEN Zero
        ELSE [num |-> Sgn(dot) * q.num, den |-> q.den]

\* The vectors cosine_similarity is tried on: pairs of small integers, and a few
\* of another length (zip stops at the shorter vector, each norm takes its whole
\* vector).
CosVectors ==
    {<<>>, <<0>>, <<2>>, <<1, 0, 2>>}
        \cup {<<x, y>> : x \in (-MaxComp)..MaxComp, y \in (-MaxComp)..MaxComp}

\* no call of cosine_similarity under way
CosIdle == cos_a = <<>> /\ cos_b = <<>> /\ cos_res = Zero /\ cospc = "idle"

\* a call cosine_similarity(a, b)
CosInit ==
    /\ cos_a \in CosVectors /\ cos_b \in CosVectors
    /\ cos_res = Zero /\ cospc = "call"

\* lines 71-78
CosCall ==
    /\ cospc = "call"
    /\ cos_res' = cosine_similarity(cos_a, cos_b)
    /\ cospc' = "done"
    /\ UNCHANGED <<cos_a, cos_b>>
    /\ UNCHANGED nonCosVars

CosNext == CosCall

\* the order of two similarities (floats in the code)
SimLt(x, y) == x.num * y.den < y.num * x.den
SimEq(x, y) == x.num * y.den = y.num * x.den
SimGe(x, y) == ~SimLt(x, y)

\* lines 104-108: the entries the loop does not skip
IsCandidate(entry, doc_type) ==
    entry.doc_type = doc_type /\ entry.embedding # <<>>

\* lines 109-110
ScoreEntry(sc, entry, q) ==
    Append(sc, [sim |-> cosine_similarity(q, entry.embedding), text |-> entry.text])

RECURSIVE ScoreAll(_, _, _)
\* lines 102-110: the whole loop
ScoreAll(index, q, doc_type) ==
    IF index = <<>> THEN <<>>
    ELSE LET rest == ScoreAll(SubSeq(index, 1, Len(index) - 1), q, doc_type)
             e == index[Len(index)]
         IN  IF IsCandidate(e, doc_type) THEN ScoreEntry(rest, e, q) ELSE rest

\* InsertDesc with a fault: x goes before the elements whose key equals its own
\* (the order an ascending sort followed by a reversal leaves)
InsertDesc_TiesFirst(sorted, x) ==
    LET n == Cardinality({i \in 1..Len(sorted) : SimLt(x.sim, sorted[i].sim)})
    IN  SubSeq(sorted, 1, n) \o <<x>> \o SubSeq(sorted, n + 1, Len(sorted))

\* x goes after every element whose key is >= its own (a stable descending sort)
InsertDesc(sorted, x) ==
    LET n == Cardinality({i \in 1..Len(sorted) : SimGe(sorted[i].sim, x.sim)})
    IN  SubSeq(sorted, 1, n) \o <<x>> \o SubSeq(sorted, n + 1, Len(sorted))

\* x goes after every element whose key is <= its own (a stable ascending sort)
InsertAsc(sorted, x) ==
    LET n == Cardinality({i \in 1..Len(sorted) : SimGe(x.sim, sorted[i].sim)})
    IN  SubSeq(sorted, 1, n) \o <<x>> \o SubSeq(sorted, n + 1, Len(sorted))

RECURSIVE SortAsc(_)
\* SortDesc with a fault: reverse=True is missing
SortAsc(sc) ==
    IF sc = <<>> THEN <<>>
    ELSE InsertAsc(SortAsc(SubSeq(sc, 1, Len(sc) - 1)), sc[Len(sc)])

RECURSIVE SortDesc(_)
\* line 115: scored.sort(key=lambda t: t[0], reverse=True); list.sort is stable,
\* also with reverse=True
SortDesc(sc) ==
    IF sc = <<>> THEN <<>>
    ELSE InsertDesc(SortDesc(SubSeq(sc, 1, Len(sc) - 1)), sc[Len(sc)])

\* line 116: scored[:k]
SlicePrefix(sc, k) ==
    IF k >= 0 THEN SubSeq(sc, 1, Min(k, Len(sc)))
    ELSE SubSeq(sc, 1, Max(0, Len(sc) + k))

SEP == 0                           \* the separator "\n\n---\n\n" (no entry has place 0)
RECURSIVE JoinSep(_)
\* line 117: "\n\n---\n\n".join(top_texts)
JoinSep(tp) ==
    IF tp = <<>> THEN <<>>
    ELSE IF Len(tp) = 1 THEN <<tp[1].text>>
    ELSE <<tp[1].text, SEP>> \o JoinSep(Tail(tp))

\* lines 112-117: what retrieve_context returns once the loop has run
SelectTop(sc, k) == IF sc = <<>> THEN <<>> ELSE SlicePrefix(SortDesc(sc), k)

RetrIdle ==
    /\ r_doc_type = "mfr" /\ r_k = 0 /\ q_emb = <<>> /\ ri = 1
    /\ scored = <<>> /\ top = <<>> /\ r_ret = <<>> /\ rpc = "idle"

\* line 92: the call retrieve_context(query, doc_type, k) on a loaded index
RetrInit ==
    /\ RAG_INDEX \in Indexes
    /\ r_doc_type \in DocTypes
    /\ r_k \in 0..MaxK
    /\ q_emb = <<>> /\ ri = 1
    /\ scored = <<>> /\ top = <<>> /\ r_ret = <<>>
    /\ rpc = "call"

\* lines 98-99: if not RAG_INDEX: return ""
RetrEmptyIndex ==
    /\ rpc = "call"
    /\ RAG_INDEX = <<>>
    /\ r_ret' = <<>>
    /\ rpc' = "done"
    /\ UNCHANGED <<r_doc_type, r_k, q_emb, ri, scored, top>>
    /\ UNCHANGED nonRetrVars

\* line 101, lines 81-89: embed_query returns the embedding of the query
RetrEmbedOk ==
    /\ rpc = "call"
    /\ RAG_INDEX # <<>>
    /\ \E q \in QueryEmbeddings : q_emb' = q
    /\ rpc' = "score"
    /\ UNCHANGED <<r_doc_type, r_k, ri, scored, top, r_ret>>
    /\ UNCHANGED nonRetrVars

\* line 101, lines 85-88: the embedding service raises, and so does retrieve_context
RetrEmbedRaise ==
    /\ rpc = "call"
    /\ RAG_INDEX # <<>>
    /\ rpc' = "raised"
    /\ UNCHANGED <<r_doc_type, r_k, q_emb, ri, scored, top, r_ret>>
    /\ UNCHANGED nonRetrVars

\* lines 103-110: one iteration of "for entry in RAG_INDEX"
RetrScoreEntry ==
    /\ rpc = "score"
    /\ ri <= Len(RAG_INDEX)
    /\ scored' = IF IsCandidate(RAG_INDEX[ri], r_doc_type)
                 THEN ScoreEntry(scored, RAG_INDEX[ri], q_emb)
                 ELSE scored
    /\ ri' = ri + 1
    /\ UNCHANGED <<r_doc_type, r_k, q_emb, top, r_ret, rpc>>
    /\ UNCHANGED nonRetrVars

\* lines 112-117: nothing scored returns ""; else sort, slice, join
RetrReturn ==
    /\ rpc = "score"
    /\ ri > Len(RAG_INDEX)
    /\ top' = SelectTop(scored, r_k)
    /\ r_ret' = JoinSep(top')
    /\ rpc' = "done"
    /\ UNCHANGED <<r_doc_type, r_k, q_emb, ri, scored>>
    /\ UNCHANGED nonRetrVars

RetrNext ==
    \/ RetrEmptyIndex \/ RetrEmbedOk \/ RetrEmbedRaise
    \/ RetrScoreEntry \/ RetrReturn

(***************************************************************************)
(* docuwrite.py : llm_to_mfr_json, llm_to_opord_json after the reply       *)
(***************************************************************************)
\* A reply is [content, obj]. content is the reply text as a sequence of
\*   "{"  "}"  : a brace outside the members of the object the reply carries
\*   "x"       : any other text
\* and obj is what json.loads yields when the window is one well-formed object
\* (the text of its members, braces nested in it included, is not spelled out).
LB == "{"
RB == "}"
JUNK == "x"

\* str(resp), taken when resp.content is empty (line 209)
StrOfResp == <<JUNK>>

\* line 209: text = resp.content or str(resp)
ReplyText(content) == IF content = <<>> THEN StrOfResp ELSE content

\* str.find(ch): the 0-based place of the first ch, -1 when there is none
Find(t, ch) ==
    IF \E p \in 1..Len(t) : t[p] = ch
    THEN (CHOOSE p \in 1..Len(t) : t[p] = ch /\ \A q \in 1..(p-1) : t[q] # ch) - 1
    ELSE -1

\* str.rfind(ch): the 0-based place of the last ch, -1 when there is none
RFind(t, ch) ==
    IF \E p \in 1..Len(t) : t[p] = ch
    THEN (CHOOSE p \in 1..Len(t) : t[p] = ch /\ \A q \in (p+1)..Len(t) : t[q] # ch) - 1
    ELSE -1

\* lines 212 and 276: first == -1 or last == -1 or last < first
NoWindow(t) == Find(t, LB) = -1 \/ RFind(t, RB) = -1 \/ RFind(t, RB) < Find(t, LB)

\* Window with a fault: the window ends at the first closing brace after its start
Window_FirstClose(t) ==
    LET f == Find(t, LB) + 1
        l == CHOOSE p \in f..Len(t) : t[p] = RB /\ \A q \in f..(p-1) : t[q] # RB
    IN  SubSeq(t, f, l)

\* lines 215 and 279: text[first:last + 1]
Window(t) == SubSeq(t, Find(t, LB) + 1, RFind(t, RB) + 1)

\* json.loads(window) returns: the window is one object and nothing else
JsonLoads(w) == w = <<LB, RB>>

\* An object: the MFR keys (subject: "absent" | "str" | "nonstr"; sections:
\* absent, not a list, or a list of items "pair" | "nondict" | "nokey" | "nonstr")
\* and the six OPORD keys (okeys: "all" | "missing"; otypes: "str" | "nonstr").
Sections(kind, items) == [kind |-> kind, items |-> items]
MfrObj(subject, sections) ==
    [subject |-> subject, sections |-> sections, okeys |-> "missing", otypes |-> "str"]
OpordObj(okeys, otypes) ==
    [subject |-> "absent", sections |-> Sections("absent", <<>>),
     okeys |-> okeys, otypes |-> otypes]
NoData == OpordObj("missing", "str")

Objs ==
    {MfrObj("str", Sections("list", <<"pair">>)),
     MfrObj("str", Sections("list", <<"pair", "nondict">>)),
     MfrObj("str", Sections("list", <<"nondict">>)),
     MfrObj("str", Sections("list", <<"nokey">>)),
     MfrObj("str", Sections("list", <<"nonstr">>)),
     MfrObj("str", Sections("list", <<>>)),
     MfrObj("str", Sections("notlist", <<>>)),
     MfrObj("str", Sections("absent", <<>>)),
     MfrObj("absent", Sections("list", <<"pair">>)),
     MfrObj("nonstr", Sections("list", <<"pair">>)),
     OpordObj("all", "str"),
     OpordObj("all", "nonstr"),
     OpordObj("missing", "str")}

ReplyContents ==
    {<<>>, <<JUNK>>, <<RB, LB>>, <<LB, RB>>, <<JUNK, LB, RB, JUNK>>,
     <<LB, JUNK, RB>>, <<LB, RB, LB, RB>>}

\* the replies the completion service can give; the obj of a reply with two
\* objects in a row is what each of the two holds
Replies ==
    {[content |-> c, obj |-> o] :
        c \in {<<LB, RB>>, <<JUNK, LB, RB, JUNK>>, <<LB, RB, LB, RB>>}, o \in Objs}
        \cup {[content |-> c, obj |-> NoData] : c \in ReplyContents}
NoReply == [content |-> <<>>, obj |-> NoData]

Returned(obj) == [ok |-> TRUE, data |-> obj]
Raised == [ok |-> FALSE, data |-> NoData]

\* lines 209-220
llm_to_mfr_json_reply(reply) ==
    LET t == ReplyText(reply.content)
    IN  IF NoWindow(t) THEN Raised
        ELSE IF ~JsonLoads(Window(t)) THEN Raised
        ELSE IF reply.obj.subject = "absent" \/ reply.obj.sections.kind = "absent"
             THEN Raised
        ELSE IF reply.obj.sections.kind # "list" \/ reply.obj.sections.items = <<>>
             THEN Raised
        ELSE Returned(reply.obj)

\* lines 273-290
llm_to_opord_json_reply(reply) ==
    LET t == ReplyText(reply.content)
    IN  IF NoWindow(t) THEN Raised
        ELSE IF ~JsonLoads(Window(t)) THEN Raised
        ELSE IF reply.obj.okeys # "all" THEN Raised
        ELSE Returned(reply.obj)

\* a message: its role, which part of the payload it carries, and the retrieved
\* passages quoted in it (none outside the context block)
Message(role, part, ctx) == [role |-> role, part |-> part, context |-> ctx]

\* BuildMsgs with a fault: the context block is left out
BuildMsgs_NoContext(ctx) ==
    <<Message("system", "instructions", <<>>), Message("user", "request", <<>>)>>

\* lines 170-201 and 236-265: the messages of the completion call; the context
\* block quotes rag_context, or says that there is none
BuildMsgs(ctx) ==
    <<Message("system", "instructions", <<>>),
      Message("system", "context", ctx),
      Message("user", "request", <<>>)>>

(***************************************************************************)
(* The collaborators of main                                               *)
(***************************************************************************)
HasItem(obj, kind) == \E i \in 1..Len(obj.sections.items) : obj.sections.items[i] = kind

\* lines 356-373: the quality loop raises on an item that is no dict
\* (sec["content"] on a str), on a dict without the key, on a content the spell
\* checker cannot tokenize, and when a tool itself raises
QualityRaises(obj, do_spell, do_grammar, tools_ok) ==
    /\ do_spell \/ do_grammar
    /\ \/ HasItem(obj, "nondict")
       \/ HasItem(obj, "nokey")
       \/ do_spell /\ HasItem(obj, "nonstr")
       \/ ~tools_ok

\* MFRPdfTool.run (MFRPdfTool.py 81-112): items that are no dict are dropped
\* (line 87), a missing key reads as "" (line 85), _escape raises on a value
\* that is no string (lines 204-205, 230-238); building the file can raise
MFRPdfTool_run(obj, io) ==
    IF io = "raise" \/ HasItem(obj, "nonstr") THEN "raise" ELSE "ok"

\* OPORDPdfTool.run (OPORDPdfTool.py 56-70): _escape raises on a field that is
\* no string (lines 102, 112, 126-133); building the file can raise
OPORDPdfTool_run(obj, io) ==
    IF io = "raise" \/ obj.otypes = "nonstr" THEN "raise" ELSE "ok"

\* MFRPromptTool.run (MFRPromptTool.py 35-66): an empty prompt is an error
\* result, else the derived subject and paragraphs go to MFRPdfTool.run
MFRPromptTool_run(prompt, io) ==
    IF prompt = "" THEN "not_ok"
    ELSE IF io = "raise" THEN "raise" ELSE "ok"

IOOutcomes == {"ok", "raise"}

(***************************************************************************)
(* MFRPromptTool.py : run, _derive_subject, _derive_paragraphs             *)
(***************************************************************************)
PromptChars == {"a", "A", " ", NL}
Prompts == UNION {[1..n -> PromptChars] : n \in 0..MaxPromptLen}

IsSpace(c) == c \in {" ", NL}
RECURSIVE LStrip(_)
LStrip(s) == IF s # <<>> /\ IsSpace(s[1]) THEN LStrip(Tail(s)) ELSE s
RECURSIVE RStrip(_)
RStrip(s) ==
    IF s # <<>> /\ IsSpace(s[Len(s)]) THEN RStrip(SubSeq(s, 1, Len(s) - 1)) ELSE s
\* str.strip()
strip(s) == RStrip(LStrip(s))

Upper(c) == IF c = "a" THEN "A" ELSE c
Lower(c) == IF c = "A" THEN "a" ELSE c
\* str.capitalize(): the first character upper case, the others lower case
capitalize(s) == [i \in 1..Len(s) |-> IF i = 1 THEN Upper(s[i]) ELSE Lower(s[i])]

SubjectLimit == 120

\* lines 69-78: _derive_subject
derive_subject(prompt) ==
    LET flat  == strip([i \in 1..Len(prompt) |->
                          IF prompt[i] = NL THEN " " ELSE prompt[i]])
        short == IF Len(flat) > SubjectLimit
                 THEN SubSeq(flat, 1, SubjectLimit - 3) \o <<".", ".", ".">>
                 ELSE flat
        cap   == capitalize(short)
        dot   == IF cap # <<>> /\ cap[Len(cap)] = "." THEN cap ELSE Append(cap, ".")
    IN  <<"MFR - ">> \o dot

\* lines 80-92: _derive_paragraphs, the first paragraph quotes the prompt
derive_paragraphs(prompt) ==
    <<<<"This memorandum records the subject matter: ">> \o strip(prompt),
      <<"Rationale">>, <<"Execution">>, <<"Risk & Coordination">>,
      <<"Recommendation">>>>

NoResult == [status |-> "none", subject |-> <<>>, body |-> <<>>]

\* lines 35-66: run on the characters of the prompt. A prompt that strips to
\* nothing is answered {"ok": False, "error": "Missing 'prompt'."}; what
\* os.makedirs (line 45) or MFRPdfTool.run (line 52) raises is not caught; else
\* the result of MFRPdfTool.run is returned, which is {"ok": True, ...}
MFRPromptTool_result(prompt, io) ==
    IF strip(prompt) = <<>> THEN [NoResult EXCEPT !.status = "error"]
    ELSE IF io = "raise" THEN [NoResult EXCEPT !.status = "raise"]
    ELSE [status |-> "ok",
          subject |-> derive_subject(strip(prompt)),
          body |-> derive_paragraphs(strip(prompt))]

PromptIdle ==
    p_prompt = <<>> /\ p_io = "ok" /\ p_result = NoResult /\ ppc = "idle"

\* a call run(prompt=..., output_path=...)
PromptInit ==
    /\ p_prompt \in Prompts
    /\ p_io \in IOOutcomes
    /\ p_result = NoResult
    /\ ppc = "call"

\* lines 35-66
PromptRun ==
    /\ ppc = "call"
    /\ p_result' = MFRPromptTool_result(p_prompt, p_io)
    /\ ppc' = "done"
    /\ UNCHANGED <<p_prompt, p_io>>
    /\ UNCHANGED nonPromptVars

PromptNext == PromptRun

(***************************************************************************)
(* docuwrite.py : main, the request loop (lines 320-425)                   *)
(***************************************************************************)
DefaultK == 4

ExitInputs == {"exit", "quit"}
MfrInputs == {"memo on squadron dogs"}
OpordInputs == {"opord for a fun run"}
RequestInputs == MfrInputs \cup OpordInputs

\* lines 335-339
DetectMode(inp) == IF inp \in OpordInputs THEN "opord" ELSE "mfr"

CtlIndexes == {ix \in Indexes : Len(ix) <= MaxCtlIndex}

\* lines 403, 406, 408: used_fallback = (mode == "mfr")
UsedFallbackFor(m) == m = "mfr"

\* UsedFallbackAfterRender with a fault: the flag is set whatever the result
UsedFallbackAfterRender_Always(res, uf, m) == UsedFallbackFor(m)

\* lines 399-403: the flag is set only when the renderer's result is not ok
UsedFallbackAfterRender(res, uf, m) == IF res = "ok" THEN uf ELSE UsedFallbackFor(m)

\* UsedFallbackAtStart with a fault: the flag of the request before is kept
UsedFallbackAtStart_Stale == used_fallback

\* line 343: used_fallback = False
UsedFallbackAtStart == FALSE

\* AfterFailurePc with a fault: a failed attempt is tried again
AfterFailurePc_Retry == "complete"

\* lines 404-411: after the handler the loop body goes on at the fallback test
AfterFailurePc == "fallback"

\* AfterUnexpectedPc with a fault: the handler of line 424 leaves the loop
AfterUnexpectedPc_Break == "ended"

\* lines 424-425, 320: the handler prints the error and the body ends; the
\* while True of line 320 goes round to input() again
AfterUnexpectedPc == "prompt"

\* EmbedCalled with a fault: the guard of line 98 is missing
EmbedCalled_Always(index) == TRUE

\* lines 98-101: embed_query is called unless the index is empty
EmbedCalled(index) == index # <<>>

\* lines 404-406: except Exception inside the request
PipelineFailed(evs) ==
    /\ used_fallback' = UsedFallbackFor(mode)
    /\ events' = events \o evs \o <<"pipeline_failed">>
    /\ pc' = AfterFailurePc

CtlIdle ==
    /\ llm = "none" /\ pc = "idle" /\ n_req = 0 /\ user_input = "" /\ mode = "mfr"
    /\ used_fallback = FALSE /\ rag_context = <<>> /\ msgs = <<>> /\ resp = NoReply
    /\ data = NoData
    /\ result = "none" /\ fb_prompt = "none" /\ events = <<>> /\ req_input = ""
    /\ req_state = "none"

\* lines 295-318: the index is loaded, the adapter is built or not
CtlInit ==
    /\ RAG_INDEX \in CtlIndexes
    /\ llm \in {"none", "adapter"}
    /\ pc = "prompt" /\ n_req = 0 /\ user_input = "" /\ mode = "mfr"
    /\ used_fallback = FALSE /\ rag_context = <<>> /\ msgs = <<>> /\ resp = NoReply
    /\ data = NoData
    /\ result = "none" /\ fb_prompt = "none" /\ events = <<>> /\ req_input = ""
    /\ req_state = "none"

\* lines 322-325: 'exit' or 'quit' ends the loop
AcceptExit ==
    /\ pc = "prompt"
    /\ \E inp \in ExitInputs : user_input' = inp
    /\ pc' = "ended"
    /\ UNCHANGED <<llm, n_req, mode, used_fallback, rag_context, msgs, resp, data, result,
                   fb_prompt, events, req_input, req_state>>
    /\ UNCHANGED nonCtlVars

\* lines 326-327: an empty line is skipped
AcceptEmpty ==
    /\ pc = "prompt"
    /\ user_input' = ""
    /\ UNCHANGED <<llm, pc, n_req, mode, used_fallback, rag_context, msgs, resp, data, result,
                   fb_prompt, events, req_input, req_state>>
    /\ UNCHANGED nonCtlVars

\* lines 322-345, 407-408: a request is accepted; os.makedirs (line 332) can
\* raise, which the handler of line 424 reports
AcceptRequest ==
    /\ pc = "prompt"
    /\ n_req < MaxRequests
    /\ \E inp \in RequestInputs, mk \in IOOutcomes :
          /\ user_input' = inp
          /\ req_input' = inp
          /\ IF mk = "raise"
             THEN /\ events' = <<"makedirs_raise", "unexpected">>
                  /\ UNCHANGED <<mode, used_fallback>>
                  /\ pc' = AfterUnexpectedPc
                  /\ req_state' = "ended"
             ELSE /\ mode' = DetectMode(inp)
                  /\ events' = <<"start">>
                  /\ req_state' = "active"
                  /\ IF llm # "none"
                     THEN used_fallback' = UsedFallbackAtStart /\ pc' = "retrieve"
                     ELSE used_fallback' = UsedFallbackFor(mode') /\ pc' = "fallback"
    /\ n_req' = n_req + 1
    /\ rag_context' = <<>> /\ msgs' = <<>> /\ resp' = NoReply /\ data' = NoData
    /\ result' = "none" /\ fb_prompt' = "none"
    /\ UNCHANGED llm
    /\ UNCHANGED nonCtlVars

\* lines 169 and 235: retrieve_context(user_prompt, doc_type=mode), k = 4
Retrieve ==
    /\ pc = "retrieve"
    /\ \E embed_ok \in BOOLEAN, q \in QueryEmbeddings :
          IF EmbedCalled(RAG_INDEX) /\ ~embed_ok
          THEN /\ PipelineFailed(<<"retrieve", "retrieve_raise">>)
               /\ UNCHANGED rag_context
          ELSE /\ rag_context' = IF RAG_INDEX = <<>> THEN <<>>
                                 ELSE JoinSep(SelectTop(ScoreAll(RAG_INDEX, q, mode), DefaultK))
               /\ events' = events \o <<"retrieve", "retrieve_ok">>
               /\ pc' = "complete"
               /\ UNCHANGED used_fallback
    /\ UNCHANGED <<llm, n_req, user_input, mode, msgs, resp, data, result, fb_prompt,
                   req_input, req_state>>
    /\ UNCHANGED nonCtlVars

\* lines 197-220 and 261-290: one completion call, then the reply is parsed
Complete ==
    /\ pc = "complete"
    /\ msgs' = BuildMsgs(rag_context)
    /\ \E call_ok \in BOOLEAN, reply \in Replies :
          LET parsed == IF mode = "mfr" THEN llm_to_mfr_json_reply(reply)
                        ELSE llm_to_opord_json_reply(reply)
          IN  IF ~call_ok
              THEN /\ PipelineFailed(<<"complete", "complete_raise">>)
                   /\ UNCHANGED <<resp, data>>
              ELSE IF ~parsed.ok
              THEN /\ PipelineFailed(<<"complete", "reject">>)
                   /\ resp' = reply
                   /\ UNCHANGED data
              ELSE /\ data' = parsed.data
                   /\ resp' = reply
                   /\ events' = events \o <<"complete", "data">>
                   /\ pc' = IF mode = "mfr" THEN "quality" ELSE "render"
                   /\ UNCHANGED used_fallback
    /\ UNCHANGED <<llm, n_req, user_input, mode, rag_context, result, fb_prompt,
                   req_input, req_state>>
    /\ UNCHANGED nonCtlVars

\* lines 351-376: the quality prompts and checks, then the signature prompt
Quality ==
    /\ pc = "quality"
    /\ \E do_spell, do_grammar, tools_ok \in BOOLEAN :
          IF QualityRaises(data, do_spell, do_grammar, tools_ok)
          THEN PipelineFailed(<<"quality_raise">>)
          ELSE /\ events' = events \o <<"quality">>
               /\ pc' = "render"
               /\ UNCHANGED used_fallback
    /\ UNCHANGED <<llm, n_req, user_input, mode, rag_context, msgs, resp, data, result,
                   fb_prompt, req_input, req_state>>
    /\ UNCHANGED nonCtlVars

\* lines 378-403: the renderer is run and its result examined
Render ==
    /\ pc = "render"
    /\ \E io \in IOOutcomes :
          LET res == IF mode = "mfr" THEN MFRPdfTool_run(data, io)
                     ELSE OPORDPdfTool_run(data, io)
          IN  IF res = "raise"
              THEN PipelineFailed(<<"render", "render_raise">>) /\ UNCHANGED result
              ELSE /\ result' = res
                   /\ events' = events \o <<"render">>
                          \o (IF res = "ok" THEN <<"written">> ELSE <<"pdf_failed">>)
                   /\ used_fallback' = UsedFallbackAfterRender(res, used_fallback, mode)
                   /\ pc' = "fallback"
    /\ UNCHANGED <<llm, n_req, user_input, mode, rag_context, msgs, resp, data, fb_prompt,
                   req_input, req_state>>
    /\ UNCHANGED nonCtlVars

\* lines 411-417, 424-425: the fallback tool is run on the raw input
FallbackRun ==
    /\ pc = "fallback"
    /\ used_fallback /\ mode = "mfr"
    /\ fb_prompt' = user_input
    /\ \E io \in IOOutcomes :
          LET res == MFRPromptTool_run(user_input, io)
          IN  /\ events' = events \o <<"fallback">> \o
                     (IF res = "ok" THEN <<"fallback_written">>
                      ELSE IF res = "not_ok" THEN <<"fallback_failed">>
                      ELSE <<"fallback_raise", "unexpected">>)
              /\ result' = IF res = "raise" THEN result ELSE res
              /\ pc' = IF res = "raise" THEN AfterUnexpectedPc ELSE "prompt"
    /\ req_state' = "ended"
    /\ UNCHANGED <<llm, n_req, user_input, mode, used_fallback, rag_context, msgs, resp, data,
                   req_input>>
    /\ UNCHANGED nonCtlVars

\* lines 411, 418-419: no fallback to run; the loop body ends
RequestEnd ==
    /\ pc = "fallback"
    /\ ~(used_fallback /\ mode = "mfr")
    /\ events' = IF used_fallback /\ mode = "opord"
                 THEN events \o <<"no_opord_fallback">> ELSE events
    /\ pc' = "prompt"
    /\ req_state' = "ended"
    /\ UNCHANGED <<llm, n_req, user_input, mode, used_fallback, rag_context, msgs, resp, data,
                   result, fb_prompt, req_input>>
    /\ UNCHANGED nonCtlVars

\* AfterInterruptPc with a fault: the handler goes on with the next iteration
AfterInterruptPc_Continue == "prompt"

\* line 423: break
AfterInterruptPc == "ended"

\* lines 421-423: KeyboardInterrupt anywhere in the loop body ends the loop
Interrupt ==
    /\ pc \in {"prompt", "retrieve", "complete", "quality", "render", "fallback"}
    /\ events' = IF pc = "prompt" THEN events ELSE events \o <<"interrupt">>
    /\ req_state' = IF pc = "prompt" THEN req_state ELSE "interrupted"
    /\ pc' = AfterInterruptPc
    /\ UNCHANGED <<llm, n_req, user_input, mode, used_fallback, rag_context, msgs, resp, data,
                   result, fb_prompt, req_input>>
    /\ UNCHANGED nonCtlVars

Next ==
    \/ AcceptExit \/ AcceptEmpty \/ AcceptRequest
    \/ Retrieve \/ Complete \/ Quality \/ Render
    \/ FallbackRun \/ RequestEnd \/ Interrupt

(***************************************************************************)
(* Specifications                                                          *)
(***************************************************************************)
Init == ChunkIdle /\ RetrIdle /\ CtlInit /\ BuildIdle /\ PromptIdle /\ CosIdle

Spec == Init /\ [][Next]_vars

\* The request loop with the progress its code makes: main is one sequential
\* coroutine, and each step of a request is a call that returns or raises (the
\* raise is one of the step's outcomes), after which the next statement runs.
SpecLive ==
    /\ Init /\ [][Next]_vars
    /\ WF_vars(Retrieve) /\ WF_vars(Complete) /\ WF_vars(Quality)
    /\ WF_vars(Render) /\ WF_vars(FallbackRun) /\ WF_vars(RequestEnd)

InitChunk ==
    /\ ChunkInit /\ RAG_INDEX = <<>> /\ RetrIdle /\ CtlIdle /\ BuildIdle
    /\ PromptIdle /\ CosIdle

SpecChunk == InitChunk /\ [][ChunkNext]_vars

InitRetrieve ==
    ChunkIdle /\ RetrInit /\ CtlIdle /\ BuildIdle /\ PromptIdle /\ CosIdle

SpecRetrieve == InitRetrieve /\ [][RetrNext]_vars

InitBuild ==
    /\ ChunkIdle /\ RAG_INDEX = <<>> /\ RetrIdle /\ CtlIdle /\ BuildInit
    /\ PromptIdle /\ CosIdle

SpecBuild == InitBuild /\ [][BuildNext]_vars

InitPrompt ==
    /\ ChunkIdle /\ RAG_INDEX = <<>> /\ RetrIdle /\ CtlIdle /\ BuildIdle
    /\ PromptInit /\ CosIdle

SpecPrompt == InitPrompt /\ [][PromptNext]_vars

InitCosine ==
    /\ ChunkIdle /\ RAG_INDEX = <<>> /\ RetrIdle /\ CtlIdle /\ BuildIdle
    /\ PromptIdle /\ CosInit

SpecCosine == InitCosine /\ [][CosNext]_vars

(***************************************************************************)
(* Claims about chunk_text (checked under SpecChunk)                       *)
(***************************************************************************)
RECURSIVE SumLen(_)
SumLen(ls) == IF ls = <<>> THEN 0 ELSE Len(ls[1]) + SumLen(Tail(ls))

RECURSIVE Flatten(_)
Flatten(ss) == IF ss = <<>> THEN <<>> ELSE ss[1] \o Flatten(Tail(ss))

\* the lines a chunk holds: the pieces its text has between newline separators
LinesOf(chunk) == SplitNL(chunk)
ChunkLines == [i \in 1..Len(chunks) |-> LinesOf(chunks[i])]

\* C6: when chunk_text returns, no chunk it returns is the empty string.
C6_NoEmptyChunk ==
    cpc = "done" => \A i \in 1..Len(chunks) : chunks[i] # <<>>

\* C7: when chunk_text returns, the lines of the chunks, concatenated in chunk
\* order, are exactly the line sequence of the input text (every line once, in
\* order, whole).
C7_LinesReconstructed ==
    cpc = "done" => Flatten(ChunkLines) = splitlines(text)

C7_Witness ==
    /\ cpc = "done"
    /\ max_chars >= 2
    /\ Len(chunks) >= 2
    /\ \E i \in 1..Len(chunks) : Len(LinesOf(chunks[i])) >= 2
    /\ \E j \in 1..Len(lines) : lines[j] = <<>>
    /\ \E j \in 1..Len(lines) : Len(lines[j]) > max_chars

\* C8 as stated: every chunk text is at most max_chars long unless the chunk is a
\* single line longer than max_chars, and the current chunk is closed exactly
\* when the chunk text with the next line appended would exceed max_chars.
C8_TextWithinBound ==
    /\ cpc = "done" =>
          \A i \in 1..Len(chunks) :
              \/ Len(chunks[i]) <= max_chars
              \/ Len(LinesOf(chunks[i])) = 1 /\ Len(chunks[i]) > max_chars
    /\ \A i \in 1..Len(closes) :
          closes[i].closed <=>
              /\ closes[i].before # <<>>
              /\ Len(JoinNL(Append(closes[i].before, closes[i].line))) > max_chars

\* C8 as amended: the bound is on the sum of the lengths of a chunk's lines (the
\* newline separators are not counted), unless the chunk is a single line longer
\* than max_chars; the non-empty current chunk is closed exactly when that sum
\* plus the length of the next line exceeds max_chars.
C8_LineSumWithinBound ==
    /\ cpc = "done" =>
          \A i \in 1..Len(chunks) :
              \/ SumLen(LinesOf(chunks[i])) <= max_chars
              \/ Len(LinesOf(chunks[i])) = 1 /\ Len(chunks[i]) > max_chars
    /\ \A i \in 1..Len(closes) :
          closes[i].closed <=>
              /\ closes[i].before # <<>>
              /\ SumLen(closes[i].before) + Len(closes[i].line) > max_chars

C8_Witness ==
    /\ cpc = "done"
    /\ max_chars >= 2
    /\ \E i \in 1..Len(chunks) :
          Len(LinesOf(chunks[i])) >= 2 /\ Len(chunks[i]) > max_chars
    /\ \E i \in 1..Len(closes) : closes[i].closed
    /\ \E i \in 1..Len(closes) : ~closes[i].closed /\ closes[i].before # <<>>

\* C9: when chunk_text returns, a line longer than max_chars is alone in its chunk.
C9_LongLineAlone ==
    cpc = "done" =>
        \A i \in 1..Len(chunks) :
            (\E j \in 1..Len(LinesOf(chunks[i])) : Len(LinesOf(chunks[i])[j]) > max_chars)
                => Len(LinesOf(chunks[i])) = 1

C9_Witness ==
    /\ cpc = "done"
    /\ max_chars >= 2
    /\ Len(chunks) >= 3
    /\ Len(chunks[2]) > max_chars
    /\ \E j \in 1..Len(lines) : lines[j] = <<>>

(***************************************************************************)
(* Claims about retrieve_context (checked under SpecRetrieve)              *)
(***************************************************************************)
\* the places of the index entries of the requested doc_type
Matching == {i \in 1..Len(RAG_INDEX) : RAG_INDEX[i].doc_type = r_doc_type}
\* those of them that carry an embedding
Embedded == {i \in Matching : RAG_INDEX[i].embedding # <<>>}
Selected == {top[i].text : i \in 1..Len(top)}

\* the selected passages are in non-increasing order of similarity, each with
\* the similarity of its entry, and nothing left out is more similar
TopInOrder ==
    /\ \A i, j \in 1..Len(top) : i < j => SimGe(top[i].sim, top[j].sim)
    /\ \A i \in 1..Len(top) :
          /\ top[i].text \in Embedded
          /\ SimEq(top[i].sim, cosine_similarity(q_emb, RAG_INDEX[top[i].text].embedding))
    /\ \A e \in Embedded \ Selected : \A i \in 1..Len(top) :
          SimGe(top[i].sim, cosine_similarity(q_emb, RAG_INDEX[e].embedding))

\* C10 as stated: when retrieve_context returns, the selected passages are in
\* non-increasing order of similarity and there are exactly
\* min(k, number of entries of the requested doc_type) of them.
C10_TopKOfMatching ==
    rpc = "done" =>
        /\ TopInOrder
        /\ Len(top) = Min(r_k, Cardinality(Matching))

\* C10 as amended: the count is min(k, number of entries of the requested
\* doc_type that have a non-empty embedding).
C10_TopKOfEmbedded ==
    rpc = "done" =>
        /\ TopInOrder
        /\ Cardinality(Selected) = Len(top)
        /\ Len(top) = Min(r_k, Cardinality(Embedded))

C10_Witness ==
    /\ rpc = "done"
    /\ r_k = 1 /\ Len(top) = 1
    /\ \E e \in Embedded \ Selected :
          /\ e < top[1].text
          /\ SimLt(cosine_similarity(q_emb, RAG_INDEX[e].embedding), top[1].sim)
    /\ Embedded # Matching

\* C11: retrieve_context on an empty index, or on an index with no entry of the
\* requested doc_type, never raises, and when it returns it returns the empty
\* result.
C11_EmptyNeverRaises ==
    (RAG_INDEX = <<>> \/ Matching = {}) =>
        /\ rpc # "raised"
        /\ rpc = "done" => (r_ret = <<>> /\ top = <<>>)

(***************************************************************************)
(* Claims about the request loop (checked under Spec)                      *)
(***************************************************************************)
Has(e) == \E i \in 1..Len(events) : events[i] = e
Count(e) == Cardinality({i \in 1..Len(events) : events[i] = e})
Before(e, f) ==
    \E i, j \in 1..Len(events) : i < j /\ events[i] = e /\ events[j] = f

\* the request of the history variables was accepted past the set-up of its path
Started == Has("start")
\* it has run to the end of the loop body (it was not interrupted)
Ended == req_state = "ended" /\ Started
\* llm_to_mfr_json / llm_to_opord_json raised: retrieval's embedding call, the
\* completion call, or the reply was rejected
SynthFailed == Has("retrieve_raise") \/ Has("complete_raise") \/ Has("reject")
\* a document was reported written
Success == Has("written") \/ Has("fallback_written")
\* a failure was reported to the user
FailureReports ==
    {"pdf_failed", "pipeline_failed", "fallback_failed", "no_opord_fallback", "unexpected"}
FailureReported == \E e \in FailureReports : Has(e)

\* C1: an MFR request whose synthesis failed, or that found no completion
\* client, has run the Template Generator on the raw user text and ends with a
\* document written by it; the synthesis error was caught inside the request.
C1_MfrFallbackDocument ==
    (Ended /\ DetectMode(req_input) = "mfr" /\ (SynthFailed \/ llm = "none")) =>
        /\ Count("fallback") = 1
        /\ fb_prompt = req_input
        /\ Has("fallback_written")
        /\ SynthFailed => Has("pipeline_failed")

\* C2: an OPORD request whose synthesis failed, or that found no completion
\* client, ends with no document and with a failure reported.
C2_OpordFailureSurfaced ==
    (Ended /\ DetectMode(req_input) = "opord" /\ (SynthFailed \/ llm = "none")) =>
        /\ ~Success
        /\ FailureReported

\* C3: a request that has run to its end has exactly one terminal outcome: one
\* document written, or no document and a failure reported.
C3_OneTerminalOutcome ==
    req_state = "ended" =>
        /\ Count("written") + Count("fallback_written") <= 1
        /\ Success \/ FailureReported

\* C4 as stated: every request attempts retrieval before synthesis or fallback,
\* and once retrieval has been attempted the request goes on to the completion
\* call, whatever retrieval did.
C4_RetrieveNeverFails ==
    Started =>
        /\ (Has("complete") \/ Has("fallback") \/ req_state = "ended") => Has("retrieve")
        /\ ~Before("complete", "retrieve") /\ ~Before("fallback", "retrieve")
        /\ (Has("retrieve") /\ req_state = "ended") => Has("complete")

\* C4 as amended: with a completion client, retrieval is the first step of every
\* request and whatever it returns (empty index, no matching entry, any
\* embedding) the request goes on to the completion call; only an error raised by
\* the embedding call, which is made only on a non-empty index, ends the
\* synthesis attempt without a completion call. Without a client there is no
\* retrieval.
C4_RetrieveFirst ==
    Started =>
        /\ llm = "none" => ~Has("retrieve")
        /\ (llm # "none" /\ \E i \in 1..Len(events) : events[i] \notin {"start", "interrupt"})
              => events[2] = "retrieve"
        /\ Count("retrieve") <= 1
        /\ \A i \in 1..Len(events) : events[i] = "retrieve_ok" =>
              IF i < Len(events) THEN events[i + 1] \in {"complete", "interrupt"}
              ELSE pc = "complete"
        /\ Has("retrieve_raise") => (RAG_INDEX # <<>> /\ ~Has("complete"))

C4_Witness ==
    /\ Ended
    /\ RAG_INDEX # <<>> /\ rag_context = <<>>
    /\ Has("retrieve_ok") /\ Has("complete") /\ Has("written")

\* C5 as stated: a request that has run to its end has made exactly one
\* completion call.
C5_ExactlyOneCompletion ==
    Ended => Count("complete") = 1

\* C5 as amended: at most one completion call per request: exactly one when
\* there is a client and retrieval returned, none otherwise; after a failure
\* nothing of the synthesis path is run again, the request goes to the fallback
\* (MFR) or ends (OPORD).
C5_AtMostOneCompletion ==
    /\ Count("complete") <= 1
    /\ Ended => Count("complete") = (IF llm # "none" /\ Has("retrieve_ok") THEN 1 ELSE 0)
    /\ \A i, j \in 1..Len(events) :
          (i < j /\ events[i] = "pipeline_failed") =>
              events[j] \in {"fallback", "fallback_written", "fallback_failed",
                             "fallback_raise", "unexpected", "interrupt"}
    /\ (Ended /\ Has("pipeline_failed")) =>
          Has("fallback") = (DetectMode(req_input) = "mfr")

C5_Witness ==
    /\ Ended
    /\ Count("complete") = 1
    /\ Has("complete_raise")
    /\ Has("fallback_written")

\* the completion call of the request returned a reply
Replied == Has("reject") \/ Has("data")
\* the reply was refused: the synthesis failed, it returned no document and
\* nothing went to the renderer
Rejected ==
    /\ Has("reject") /\ Has("pipeline_failed")
    /\ data = NoData
    /\ ~Has("render") /\ ~Has("written")
LBs(t) == {p \in 1..Len(t) : t[p] = LB}
RBs(t) == {p \in 1..Len(t) : t[p] = RB}
\* no '{', or no '}', or the last '}' before the first '{'
NoBraceWindow(t) ==
    \/ LBs(t) = {}
    \/ RBs(t) = {}
    \/ \A p \in RBs(t), q \in LBs(t) : p < q
\* the text from the first '{' to the last '}'
BraceWindow(t) ==
    SubSeq(t, CHOOSE q \in LBs(t) : \A r \in LBs(t) : q <= r,
              CHOOSE p \in RBs(t) : \A r \in RBs(t) : r <= p)
\* a required key of the variant is absent from the object
MissingKey(m, obj) ==
    IF m = "mfr" THEN obj.subject = "absent" \/ obj.sections.kind = "absent"
    ELSE obj.okeys # "all"
EmptySections(obj) == obj.sections.kind = "list" /\ obj.sections.items = <<>>

\* C12: a reply is rejected (synthesis fails, no document returned, nothing
\* rendered) when it has no '{', no '}' or its last '}' before its first '{';
\* when the text from the first '{' to the last '}' is not one JSON object, even
\* if a shorter window of it is; when the object lacks a required key of the
\* variant; when MFR 'sections' is the empty list. A reply that is accepted is
\* the object of that one window.
C12_ReplyRejected ==
    Replied =>
        LET t == resp.content
            m == DetectMode(req_input)
        IN  /\ NoBraceWindow(t) => Rejected
            /\ (~NoBraceWindow(t) /\ ~JsonLoads(BraceWindow(t))) => Rejected
            /\ (~NoBraceWindow(t) /\ JsonLoads(BraceWindow(t)) /\ MissingKey(m, resp.obj))
                  => Rejected
            /\ (~NoBraceWindow(t) /\ JsonLoads(BraceWindow(t)) /\ m = "mfr"
                    /\ EmptySections(resp.obj)) => Rejected
            /\ Has("data") =>
                  (~NoBraceWindow(t) /\ JsonLoads(BraceWindow(t)) /\ data = resp.obj)

\* a reply of two well-formed MFR objects in a row was rejected
C12_Witness ==
    /\ Ended /\ Rejected
    /\ DetectMode(req_input) = "mfr"
    /\ resp.content = <<LB, RB, LB, RB>>
    /\ resp.obj = MfrObj("str", Sections("list", <<"pair">>))

\* a DraftDocument of the variant: every required key, every field of its type,
\* MFR sections a non-empty sequence of title/content pairs
ValidDocument(m, obj) ==
    IF m = "mfr"
    THEN /\ obj.subject = "str"
         /\ obj.sections.kind = "list"
         /\ obj.sections.items # <<>>
         /\ \A i \in 1..Len(obj.sections.items) : obj.sections.items[i] = "pair"
    ELSE obj.okeys = "all" /\ obj.otypes = "str"

\* C13: whenever the synthesis path has invoked the renderer (MFRPdfTool.run or
\* OPORDPdfTool.run), the document it was given is a valid DraftDocument of the
\* request's variant.
C13_OnlyValidRendered ==
    Has("render") => ValidDocument(DetectMode(req_input), data)

Roles(ms) == [i \in 1..Len(ms) |-> ms[i].role]

\* C14 as stated: every completion call carries exactly two messages, a system
\* message and then the user message.
C14_TwoMessages ==
    Has("complete") => Roles(msgs) = <<"system", "user">>

\* C14 as amended: every completion call carries exactly three messages, in this
\* order: the system message with the instructions, a second system message with
\* the context block (quoting what retrieval returned for this request), and the
\* user message with the request; nothing is sent outside a completion call.
C14_ThreeMessages ==
    /\ Has("complete") =>
          /\ Roles(msgs) = <<"system", "system", "user">>
          /\ msgs[1].part = "instructions"
          /\ msgs[2].part = "context" /\ msgs[2].context = rag_context
          /\ msgs[3].part = "request"
    /\ ~Has("complete") => msgs = <<>>

C14_Witness ==
    /\ Ended
    /\ Has("complete") /\ Has("written")
    /\ rag_context # <<>>
    /\ DetectMode(req_input) = "opord"

\* C15 as stated: once an interrupt has cut a request, no document has been
\* rendered for that request and control is back at the request-acceptance point.
C15_InterruptReturnsToPrompt ==
    req_state = "interrupted" => (pc = "prompt" /\ ~Success)

\* C15 as amended: an interrupt that cuts a request ends the session. The step
\* that takes it runs nothing else of the request (no renderer, no fallback: the
\* renderer's result and the fallback's prompt are as they were, and a document
\* written before the interrupt stays written), it leaves the loop, and no step
\* at all follows it: no later request is accepted.
C15_InterruptEndsSession ==
    [][/\ req_state # "interrupted"
       /\ req_state' = "interrupted" =>
             /\ pc' = "ended"
             /\ events' = Append(events, "interrupt")
             /\ result' = result /\ fb_prompt' = fb_prompt /\ data' = data
             /\ n_req' = n_req]_vars

C15_Witness ==
    /\ req_state = "interrupted"
    /\ pc = "ended"
    /\ Has("data") /\ ~Has("render")
    /\ n_req < MaxRequests

\* C16: no step of the request loop changes RAG_INDEX (its entries, their order,
\* their contents), nor the completion client; and a request starts from its
\* input alone: its mode, its fallback flag and where it goes first are fixed by
\* the input and the client, whatever the requests before it did.
C16_IndexReadOnly ==
    [][/\ RAG_INDEX' = RAG_INDEX
       /\ llm' = llm
       /\ (pc = "prompt" /\ req_state' = "active") =>
             /\ events' = <<"start">>
             /\ mode' = DetectMode(user_input')
             /\ used_fallback' = (llm = "none" /\ mode' = "mfr")
             /\ pc' = (IF llm = "none" THEN "fallback" ELSE "retrieve")]_vars

\* a second request, after a first one, has read the index and got its document
C16_Witness ==
    /\ n_req = 2
    /\ Ended
    /\ RAG_INDEX # <<>> /\ rag_context # <<>>
    /\ Has("written")

\* C20: a request reports at most one written document: the fallback runs only
\* if the synthesis path reported none, so there is never a synthesized and a
\* fallback document for one request, and once the renderer has succeeded
\* nothing is rendered again for that request (no second render, no fallback).
C20_AtMostOneDocument ==
    /\ Count("written") + Count("fallback_written") <= 1
    /\ Count("render") <= 1 /\ Count("fallback") <= 1
    /\ Has("fallback") => ~Has("written")
    /\ \A i, j \in 1..Len(events) :
          (i < j /\ events[i] = "written") => events[j] = "interrupt"
    /\ Has("fallback") => (fb_prompt = req_input /\ DetectMode(req_input) = "mfr")

\* an MFR request, which has a fallback, got its synthesized document and ended
\* without the fallback
C20_Witness ==
    /\ Ended
    /\ DetectMode(req_input) = "mfr"
    /\ Has("written") /\ result = "ok"
    /\ ~Has("fallback") /\ fb_prompt = "none"

(***************************************************************************)
(* Claims about the index build (checked under SpecBuild)                  *)
(***************************************************************************)
BuildEnded == bpc \in {"done", "raised"}
\* the chunks of the references of one doc_type that are there to read
ChunksOf(txt, pdf) ==
    IF Blank(ReadTxt(files[txt]) \o extract_pdf_text(files[pdf])) THEN <<>>
    ELSE chunk_text(ReadTxt(files[txt]) \o extract_pdf_text(files[pdf]), BuildMaxChars)
Tags(cp) == [i \in 1..Len(cp) |-> [doc_type |-> cp[i].doc_type, text |-> cp[i].text]]
Tagged(doc_type, cs) == [i \in 1..Len(cs) |-> [doc_type |-> doc_type, text |-> cs[i]]]

\* C17: when the build has ended, an absent source has not stopped it (with
\* every source absent or readable, the corpus holds the chunks of the sources
\* that are there); the index file is unwritten only if no chunk was collected;
\* and if a chunk was collected the file holds one entry per chunk, tagged with
\* the doc_type of its source.
C17_IndexWrittenUnlessEmpty ==
    BuildEnded =>
        /\ (\A f \in Sources : files[f].st # "unreadable") =>
              Tags(corpus) = Tagged("mfr", ChunksOf(MfrTxt, MfrPdf))
                                \o Tagged("opord", ChunksOf(OpordTxt, OpordPdf))
        /\ ~index_file.written => corpus = <<>>
        /\ corpus # <<>> =>
              /\ index_file.written
              /\ Tags(index_file.entries) = Tags(corpus)

\* chunk_text as a function agrees with the loop taken step by step
ChunkTextAgrees == cpc = "done" => chunks = chunk_text(text, max_chars)

(***************************************************************************)
(* Claims about MFRPromptTool.run (checked under SpecPrompt)               *)
(***************************************************************************)
\* C18: whatever text it is given, MFRPromptTool.run returns a successful result
\* with a document that has a subject and a non-empty body; it never returns an
\* error result and never raises.
C18_TemplateNeverFails ==
    ppc = "done" =>
        /\ p_result.status = "ok"
        /\ p_result.subject # <<>>
        /\ p_result.body # <<>>

(***************************************************************************)
(* Claims about cosine_similarity (checked under SpecCosine)               *)
(***************************************************************************)
\* a vector of norm zero: every component is 0 (the empty vector is one)
ZeroNorm(v) == \A i \in 1..Len(v) : v[i] = 0
\* the distance of a float from 1 is at most tol units of 2^(-MantissaBits)
NearOne(x, tol) ==
    /\ (x.num - x.den) * Pow2(MantissaBits) <= tol * x.den
    /\ (x.den - x.num) * Pow2(MantissaBits) <= tol * x.den

\* C19 as stated: cosine_similarity returns 0 when either vector has norm zero,
\* its divisor is never zero, and for vectors of non-zero norm it returns 0 when
\* their dot product is 0 and exactly 1 when b equals a.
C19_CosineExact ==
    cospc = "done" =>
        /\ (ZeroNorm(cos_a) \/ ZeroNorm(cos_b)) => cos_res = Zero
        /\ (~ZeroNorm(cos_a) /\ ~ZeroNorm(cos_b)) =>
              /\ NormProduct(cos_a, cos_b).num # 0
              /\ DotZip(cos_a, cos_b) = 0 => cos_res = Zero
              /\ cos_b = cos_a => SimEq(cos_res, One)

\* C19 as amended: as stated, except that for b equal to a the result is 1 within
\* the rounding of the float operations (two square roots, a product, a
\* quotient): at most 4 units of 2^(-MantissaBits) away from 1, not always 1.
C19_CosineWithinRounding ==
    cospc = "done" =>
        /\ (ZeroNorm(cos_a) \/ ZeroNorm(cos_b)) => cos_res = Zero
        /\ (~ZeroNorm(cos_a) /\ ~ZeroNorm(cos_b)) =>
              /\ NormProduct(cos_a, cos_b).num # 0
              /\ DotZip(cos_a, cos_b) = 0 => cos_res = Zero
              /\ cos_b = cos_a => NearOne(cos_res, 4)

\* a vector with itself gave a float next to 1 that is not 1
C19_Witness ==
    /\ cospc = "done"
    /\ cos_b = cos_a /\ ~ZeroNorm(cos_a)
    /\ ~SimEq(cos_res, One) /\ NearOne(cos_res, 4)


(***************************************************************************)
(* The session outlives failures (checked under SpecLive)                  *)
(***************************************************************************)
\* what a failing step of a request records: in output-path setup, retrieval,
\* synthesis, the quality checks, rendering, and the fallback
Failures ==
    {"makedirs_raise", "retrieve_raise", "complete_raise", "reject", "quality_raise",
     "render_raise", "pdf_failed", "fallback_failed", "fallback_raise"}

\* the events the step adds to the request's record (a new request starts a
\* new record)
NewEvents ==
    IF n_req' # n_req THEN events'
    ELSE SubSeq(events', Len(events) + 1, Len(events'))

\* the step is one in which something failed
FailingStep == \E i \in 1..Len(NewEvents) : NewEvents[i] \in Failures

\* the step is the user typing 'exit' or 'quit' at the prompt
ExitStep == pc = "prompt" /\ user_input' \in ExitInputs

\* the step is a KeyboardInterrupt: at the prompt, or cutting a request
InterruptStep ==
    /\ user_input' = user_input /\ n_req' = n_req
    /\ IF pc = "prompt" THEN events' = events
       ELSE events' = Append(events, "interrupt")

\* the step is the user entering an empty line at the prompt
EmptyInputStep == pc = "prompt" /\ user_input' = "" /\ pc' # "ended"

\* a failure has been recorded for the request in progress
FailedInProgress ==
    req_state = "active" /\ \E e \in Failures : Has(e)

\* C21: a step in which something fails (output-path setup, retrieval,
\* synthesis, rendering, fallback) never ends the session; the session ends
\* only by a step that is 'exit'/'quit' at the prompt or a user interrupt; an
\* empty input is skipped with no collaborator invoked (no retrieval, no
\* completion call, no renderer, no fallback: the request's record, counters
\* and results stay as they were) and the prompt is shown again; and a request
\* in which something failed always gets back to the prompt, unless the user
\* interrupts it.
C21_FailureKeepsSession ==
    /\ [][FailingStep => pc' # "ended"]_vars
    /\ [][pc # "ended" /\ pc' = "ended" => ExitStep \/ InterruptStep]_vars
    /\ [][EmptyInputStep =>
            /\ pc' = "prompt"
            /\ UNCHANGED <<n_req, events, rag_context, msgs, resp, data, result,
                           fb_prompt, used_fallback, req_state, RAG_INDEX>>]_vars
    /\ FailedInProgress ~> (pc = "prompt" \/ req_state = "interrupted")

\* a request failed in its fallback (the handler of line 424 ran), and the loop
\* went on: the next input, an empty line, was read and skipped
C21_Witness ==
    /\ pc = "prompt"
    /\ req_state = "ended"
    /\ Has("fallback_raise") /\ Has("unexpected")
    /\ req_input # "" /\ user_input = ""


(***************************************************************************)
(* Ties in retrieve_context (checked under SpecRetrieve)                   *)
(***************************************************************************)
\* the similarity to the query of each eligible entry
SimOf == [e \in Embedded |-> cosine_similarity(q_emb, RAG_INDEX[e].embedding)]

\* how many eligible entries come before e when the eligible entries are put
\* in order of decreasing similarity, entries of equal similarity in index order
Rank(sm, e) ==
    Cardinality({f \in DOMAIN sm :
                    \/ SimLt(sm[e], sm[f])
                    \/ SimEq(sm[e], sm[f]) /\ f < e})

\* the passages that order puts first, min(k, eligible) of them: a function of
\* the query embedding, the index, the doc_type and k alone
Expected ==
    LET sm == SimOf
    IN  [i \in 1..Min(r_k, Cardinality(Embedded)) |->
            CHOOSE e \in Embedded : Rank(sm, e) = i - 1]

\* C22: when retrieve_context returns, entries of the requested doc_type whose
\* similarity to the query is equal are kept in their index order, among the
\* selected passages and where the cut at k falls between them (the earlier
\* entry is the one kept); and the result is the one the query embedding, the
\* index, the doc_type and k determine: the eligible entries by decreasing
\* similarity, ties by index order, cut at k, joined with the separator.
C22_StableDeterministic ==
    rpc = "done" =>
        LET sm  == SimOf
            exp == Expected
        IN  /\ \A i, j \in 1..Len(top) :
                  i < j /\ SimEq(top[i].sim, top[j].sim) => top[i].text < top[j].text
            /\ \A e \in Embedded \ Selected : \A i \in 1..Len(top) :
                  SimEq(sm[e], top[i].sim) => top[i].text < e
            /\ [i \in 1..Len(top) |-> top[i].text] = exp
            /\ r_ret = JoinSep([i \in 1..Len(exp) |-> [text |-> exp[i]]])

\* three eligible entries, the second more similar than the first and the
\* third, which tie; k = 2 cuts between the two that tie
C22_Witness ==
    /\ rpc = "done"
    /\ Len(top) = 2
    /\ top[1].text = 2 /\ top[2].text = 1
    /\ 3 \in Embedded \ Selected
    /\ SimEq(SimOf[3], top[2].sim)
    /\ SimLt(top[2].sim, top[1].sim)
    /\ RAG_INDEX[3].embedding # RAG_INDEX[1].embedding

====
